---------------------------- MODULE Spec2Model ----------------------------
(***************************************************************************)
(* Model of the recommendation core of civicprototype02:                   *)
(*   - PriorityMappingService.analyzePriorities (with the mock-data        *)
(*     helpers findIssuesByKeywords and detectConflicts it calls),         *)
(*   - CandidateMatchingService.findMatchingCandidates,                    *)
(*   - BallotMeasureService.findRelevantMeasures,                          *)
(*   - RecommendationService.generateRecommendations and its result cache. *)
(*                                                                         *)
(* Texts are TLA+ strings handled character by character (SubSeq, Len,     *)
(* \o), so toLowerCase, trim, includes, the flag patterns and the default  *)
(* Array.prototype.sort order are computed, not assumed.  Numbers that are *)
(* fractions in the source are kept as <<numerator, denominator>> pairs or *)
(* as integer thousandths, as stated where they are used.                  *)
(***************************************************************************)
EXTENDS Integers, Sequences, FiniteSets, TLC

VARIABLES
    cache,      \* RecommendationService.cache: cache key -> stored result
    last,       \* record of the most recent generateRecommendations call
    seen,       \* requests of all calls before the most recent one
    nCalls,     \* number of generateRecommendations calls made so far
    input,      \* argument of a direct analyzePriorities call
    analysis,   \* what that analyzePriorities call returned
    mpc,        \* position of the direct analyzePriorities caller
    location,   \* zipCode argument of a direct findRelevantMeasures call
    returnedCandidates, \* what a direct findMatchingCandidates call returned
    returnedMeasures    \* what a direct findRelevantMeasures call returned

vars == <<cache, last, seen, nCalls, input, analysis, mpc,
          location, returnedCandidates, returnedMeasures>>

-----------------------------------------------------------------------------
(* String primitives of the JavaScript runtime, over the ASCII subset used. *)

UpperChars == "ABCDEFGHIJKLMNOPQRSTUVWXYZ"
LowerChars == "abcdefghijklmnopqrstuvwxyz"

\* The characters of the model in increasing UTF-16 code unit order.
CodeOrder ==
    "\t\n\r -0123456789:ABCDEFGHIJKLMNOPQRSTUVWXYZ_abcdefghijklmnopqrstuvwxyz"

CharAt(s, i) == SubSeq(s, i, i)

\* White space as matched by \s and removed by String.prototype.trim.
IsSpace(c) == c \in {" ", "\t", "\n", "\r"}

\* Code unit rank of each character of CodeOrder, and the lower-case letter
\* of each upper-case one.
CharCode == [c \in {CharAt(CodeOrder, i) : i \in 1..Len(CodeOrder)} |->
                CHOOSE i \in 1..Len(CodeOrder) : CharAt(CodeOrder, i) = c]

UpperToLower == [c \in {CharAt(UpperChars, i) : i \in 1..Len(UpperChars)} |->
                    CharAt(LowerChars, CHOOSE i \in 1..Len(UpperChars) : CharAt(UpperChars, i) = c)]

LowerChar(c) == IF c \in DOMAIN UpperToLower THEN UpperToLower[c] ELSE c

RECURSIVE LowerFrom(_, _)
LowerFrom(s, i) ==
    IF i > Len(s) THEN "" ELSE LowerChar(CharAt(s, i)) \o LowerFrom(s, i + 1)

ToLowerCase(s) == LowerFrom(s, 1)

\* s.includes(t)
Includes(s, t) ==
    \E i \in 1..(Len(s) - Len(t) + 1) : SubSeq(s, i, i + Len(t) - 1) = t

RECURSIVE TrimStart(_)
TrimStart(s) ==
    IF s # "" /\ IsSpace(CharAt(s, 1)) THEN TrimStart(SubSeq(s, 2, Len(s))) ELSE s

RECURSIVE TrimEnd(_)
TrimEnd(s) ==
    IF s # "" /\ IsSpace(CharAt(s, Len(s))) THEN TrimEnd(SubSeq(s, 1, Len(s) - 1)) ELSE s

Trim(s) == TrimEnd(TrimStart(s))

\* s.split(/\s+/): the maximal runs of non-space characters, with an empty
\* first (last) element when s starts (ends) with white space.
RECURSIVE SplitFrom(_, _, _)
SplitFrom(s, i, cur) ==
    IF i > Len(s) THEN <<cur>>
    ELSE IF IsSpace(CharAt(s, i))
         THEN IF i > 1 /\ IsSpace(CharAt(s, i - 1))
              THEN SplitFrom(s, i + 1, cur)
              ELSE <<cur>> \o SplitFrom(s, i + 1, "")
         ELSE SplitFrom(s, i + 1, cur \o CharAt(s, i))

SplitSpaces(s) == SplitFrom(s, 1, "")

\* a < b in the order of the default sort: by UTF-16 code units, a proper
\* prefix first.
RECURSIVE StrLess(_, _)
StrLess(a, b) ==
    IF b = "" THEN FALSE
    ELSE IF a = "" THEN TRUE
    ELSE LET ca == CharCode[CharAt(a, 1)]
             cb == CharCode[CharAt(b, 1)]
         IN  IF ca # cb THEN ca < cb
             ELSE StrLess(SubSeq(a, 2, Len(a)), SubSeq(b, 2, Len(b)))

\* Array.prototype.sort() with no comparator (stable; equal strings are
\* identical, so the sorted array is unique).
RECURSIVE InsertSorted(_, _)
InsertSorted(sorted, x) ==
    IF sorted = <<>> THEN <<x>>
    ELSE IF StrLess(x, Head(sorted)) THEN <<x>> \o sorted
         ELSE <<Head(sorted)>> \o InsertSorted(Tail(sorted), x)

RECURSIVE SortStrings(_)
SortStrings(arr) ==
    IF arr = <<>> THEN <<>>
    ELSE InsertSorted(SortStrings(SubSeq(arr, 1, Len(arr) - 1)), arr[Len(arr)])

\* Generic sequence helpers (join; filter is SelectSeq).
Range(s) == {s[i] : i \in 1..Len(s)}

\* A function computed once for its whole domain and kept as a table.
Table(f) == f @@ <<>>

RECURSIVE Join(_, _)
Join(arr, sep) ==
    IF arr = <<>> THEN ""
    ELSE IF Len(arr) = 1 THEN arr[1]
    ELSE arr[1] \o sep \o Join(Tail(arr), sep)

-----------------------------------------------------------------------------
(* The priority texts callers supply in this model: blank ones, ones that  *)
(* match a flag pattern (by one or several patterns, with one or several   *)
(* white space characters, in either case), near misses, ordinary ones,    *)
(* and the texts the test-request handling of the orchestrator looks for.  *)

Texts == {
    "", " \t ",
    "I want lower taxes", "Better public schools", "Climate action",
    "Education equity", "Something extremely specific",
    "Imprison  judges", "start a trade war", "Return to the Gold\tStandard",
    "abolish government", "gold standard or trade war", "tradewar",
    "Economy", "Education", "throw_error", "test priority",
    "climate advocate", "e",
    "Lower taxes and reduce spending", "Increase education funding",
    "Fix the roads" }

\* Texts of the diagnostic requests made of generateRecommendations only.
DiagnosticTexts == {"Mock data", "Extremely Specific"}

AllTexts == Texts \cup DiagnosticTexts

-----------------------------------------------------------------------------
(* Static data: src/test/mock-data.ts.  The fields description and weight  *)
(* of an issue are read by no code path of analyzePriorities and are left  *)
(* out.                                                                     *)

MOCK_POLITICAL_ISSUES == <<
    [id |-> "taxes", name |-> "Taxation", category |-> "ECONOMY",
     synonyms |-> <<"tax", "taxes", "tax reform", "tax relief", "tax reduction">>,
     relatedTerms |-> <<"income tax", "property tax", "tax burden", "tax cuts", "lower taxes">>],
    [id |-> "small_business", name |-> "Small Business Support", category |-> "ECONOMY",
     synonyms |-> <<"small business", "business support", "entrepreneurship">>,
     relatedTerms |-> <<"local business", "business owners", "small business loans",
                        "business regulation">>],
    [id |-> "public_education", name |-> "Public Education", category |-> "EDUCATION",
     synonyms |-> <<"schools", "education", "public schools", "school funding">>,
     relatedTerms |-> <<"teachers", "students", "classrooms", "school quality",
                        "better schools", "education funding">>],
    [id |-> "education_equity", name |-> "Education Equity", category |-> "EDUCATION",
     synonyms |-> <<"fair education", "equal education", "access to education",
                    "educational equality">>,
     relatedTerms |-> <<"achievement gap", "school funding equity", "education opportunity",
                        "fair access to schools", "equitable school resources">>],
    [id |-> "healthcare_access", name |-> "Healthcare Access", category |-> "HEALTHCARE",
     synonyms |-> <<"healthcare", "medical care", "health insurance", "affordable healthcare",
                    "public health">>,
     relatedTerms |-> <<"doctor", "hospital", "medical costs", "health coverage",
                        "healthcare reform", "health measures", "public health services">>],
    [id |-> "climate_change", name |-> "Climate Change", category |-> "ENVIRONMENT",
     synonyms |-> <<"global warming", "climate action", "climate crisis",
                    "environmental protection", "water quality", "pollution control">>,
     relatedTerms |-> <<"carbon emissions", "climate policy", "clean energy", "green spaces",
                        "park access", "urban greening", "water protection", "clean water",
                        "industrial pollution", "emissions control">>],
    [id |-> "road_maintenance", name |-> "Road Maintenance", category |-> "INFRASTRUCTURE",
     synonyms |-> <<"roads", "highways", "street repair">>,
     relatedTerms |-> <<"potholes", "road construction", "fix roads", "road quality",
                        "neighborhood roads">>],
    [id |-> "social_equity", name |-> "Social Equity", category |-> "SOCIAL_SERVICES",
     synonyms |-> <<"equity", "equality", "social justice", "fairness", "economic justice">>,
     relatedTerms |-> <<"equal opportunity", "fair treatment", "diversity", "inclusion",
                        "justice", "fair hiring", "living wage", "worker protections",
                        "equal pay", "environmental justice">>] >>

MOCK_ISSUE_CONFLICTS == <<
    [issues |-> <<"taxes", "public_education">>,
     reason |-> "Lowering taxes may reduce funding available for public education",
     severity |-> "high", type |-> "resource"],
    [issues |-> <<"road_maintenance", "taxes">>,
     reason |-> "Infrastructure improvements require funding that may conflict with tax reduction goals",
     severity |-> "medium", type |-> "resource"] >>

\* The issue literal analyzePriorities builds for climate priorities.
ClimateIssueLiteral ==
    [id |-> "climate-change", name |-> "Climate Change", category |-> "ENVIRONMENT",
     synonyms |-> <<"climate", "environment", "green", "sustainability">>,
     relatedTerms |-> <<"global warming", "carbon emissions", "renewable energy">>]

\* The keys of categoryCounts, in declaration order.
PoliticalCategories == <<
    "EDUCATION", "ECONOMY", "HEALTHCARE", "ENVIRONMENT", "INFRASTRUCTURE",
    "PUBLIC_SAFETY", "SOCIAL_SERVICES", "HOUSING", "IMMIGRATION", "FOREIGN_POLICY",
    "CIVIL_RIGHTS", "TAXATION", "TECHNOLOGY", "AGRICULTURE", "ENERGY", "DEFENSE",
    "LABOR", "TRANSPORTATION", "CRIMINAL_JUSTICE", "ELECTORAL_REFORM" >>

\* Each pattern /head\s+(alt1|alt2)/i as its literal head and alternatives.
EXTREME_PRIORITY_PATTERNS == <<
    [head |-> "imprison", alts |-> <<"judges", "officials">>, flagType |-> "extreme",
     reason |-> "Advocates for potentially extra-judicial actions."],
    [head |-> "trade", alts |-> <<"war">>, flagType |-> "extreme",
     reason |-> "Suggests a drastic and potentially harmful economic policy."],
    [head |-> "gold", alts |-> <<"standard">>, flagType |-> "out_of_scope",
     reason |-> "Represents a niche economic theory not typically covered."],
    [head |-> "abolish", alts |-> <<"taxes", "government">>, flagType |-> "extreme",
     reason |-> "Suggests a fundamental dismantling of core government functions."] >>

-----------------------------------------------------------------------------
(* PriorityMappingService and the helpers it imports.                      *)

StartsAt(s, i, t) == i + Len(t) - 1 <= Len(s) /\ SubSeq(s, i, i + Len(t) - 1) = t

\* pattern.test(priority) for /head\s+(alts)/i: the head, one or more white
\* space characters, then one of the alternatives, anywhere in the text.
PatternTest(pattern, priority) ==
    LET l == ToLowerCase(priority)
        h == Len(pattern.head)
    IN  \E i \in 1..Len(l) :
            /\ StartsAt(l, i, pattern.head)
            /\ \E j \in (i + h + 1)..Len(l) :
                   /\ \A k \in (i + h)..(j - 1) : IsSpace(CharAt(l, k))
                   /\ \E a \in 1..Len(pattern.alts) : StartsAt(l, j, pattern.alts[a])

\* Index of the first registered pattern that matches, 0 when none does
\* (the inner for loop with its break).
\* Faulty variant of FirstMatchingPattern: the loop runs on after a match,
\* so the last matching pattern decides.
LastMatchingPattern(priority) ==
    LET hits == {i \in 1..Len(EXTREME_PRIORITY_PATTERNS) :
                     PatternTest(EXTREME_PRIORITY_PATTERNS[i], priority)}
    IN  IF hits = {} THEN 0 ELSE CHOOSE i \in hits : \A j \in hits : i >= j

FirstMatchingPattern(priority) ==
    LET hits == {i \in 1..Len(EXTREME_PRIORITY_PATTERNS) :
                     PatternTest(EXTREME_PRIORITY_PATTERNS[i], priority)}
    IN  IF hits = {} THEN 0 ELSE CHOOSE i \in hits : \A j \in hits : i <= j

IsBlank(priority) == Len(Trim(priority)) = 0

\* The outcome of the first loop for each text of the model, computed once:
\* -1 for a blank text, else the index of its first matching pattern or 0.
FlagIndexOf ==
    Table([t \in AllTexts |-> IF IsBlank(t) THEN -1 ELSE FirstMatchingPattern(t)])

IssuesInCategories(cats) ==
    LET InCats(issue) == issue.category \in cats
    IN  SelectSeq(MOCK_POLITICAL_ISSUES, InCats)

\* The standard keyword matching of findIssuesByKeywords for one keyword.
KeywordMatchesIssue(normalizedKeyword, issue) ==
    LET Hit(term) == \/ Includes(normalizedKeyword, ToLowerCase(term))
                     \/ Includes(ToLowerCase(term), normalizedKeyword)
    IN  \/ \E i \in 1..Len(issue.synonyms) : Hit(issue.synonyms[i])
        \/ \E i \in 1..Len(issue.relatedTerms) : Hit(issue.relatedTerms[i])

\* The fallback of findIssuesByKeywords: the first issue sharing a word of
\* three or more characters with the keywords, else the first issue.
WordInIssue(word, issue) ==
    LET In(term) == Includes(ToLowerCase(term), word)
    IN  \/ Includes(ToLowerCase(issue.name), word)
        \/ \E i \in 1..Len(issue.synonyms) : In(issue.synonyms[i])
        \/ \E i \in 1..Len(issue.relatedTerms) : In(issue.relatedTerms[i])

RECURSIVE KeywordFallback(_, _)
KeywordFallback(words, w) ==
    IF w > Len(words) THEN <<MOCK_POLITICAL_ISSUES[1]>>
    ELSE IF Len(words[w]) < 3 THEN KeywordFallback(words, w + 1)
    ELSE LET hits == {i \in 1..Len(MOCK_POLITICAL_ISSUES) :
                          WordInIssue(words[w], MOCK_POLITICAL_ISSUES[i])}
         IN  IF hits # {}
             THEN <<MOCK_POLITICAL_ISSUES[CHOOSE i \in hits : \A j \in hits : i <= j]>>
             ELSE KeywordFallback(words, w + 1)

\* findIssuesByKeywords([keyword]): analyzePriorities always passes one keyword.
findIssuesByKeywords(keyword) ==
    LET joined == ToLowerCase(keyword)
        Has(t) == Includes(joined, t)
        ById(issue) == issue.id \in {"taxes", "public_education"}
        normalizedKeyword == Trim(ToLowerCase(keyword))
        Std(issue) == KeywordMatchesIssue(normalizedKeyword, issue)
        results == SelectSeq(MOCK_POLITICAL_ISSUES, Std)
    IN  IF Has("education") /\ Has("equity")
            THEN IssuesInCategories({"EDUCATION", "SOCIAL_SERVICES"})
        ELSE IF Has("economic") /\ Has("justice")
            THEN IssuesInCategories({"ECONOMY", "SOCIAL_SERVICES"})
        ELSE IF Has("environmental justice")
            THEN IssuesInCategories({"ENVIRONMENT", "SOCIAL_SERVICES"})
        ELSE IF Has("environment") \/ Has("climate")
            THEN IssuesInCategories({"ENVIRONMENT", "HEALTHCARE"})
        ELSE IF Has("healthcare") \/ Has("medical")
            THEN IssuesInCategories({"HEALTHCARE"})
        ELSE IF (Has("tax") /\ Has("education")) \/ (Has("lower taxes") /\ Has("funding"))
            THEN SelectSeq(MOCK_POLITICAL_ISSUES, ById)
        ELSE IF results = <<>>
            THEN KeywordFallback(SplitSpaces(joined), 1)
        ELSE results

\* detectConflicts(issues): the static conflicts whose two ids are both present.
\* Faulty variant of detectConflicts: one id of the pair is enough.
detectConflictsOnEitherIssue(issues) ==
    LET issueIds == {issues[i].id : i \in 1..Len(issues)}
        Present(conflict) == conflict.issues[1] \in issueIds \/ conflict.issues[2] \in issueIds
    IN  SelectSeq(MOCK_ISSUE_CONFLICTS, Present)

detectConflicts(issues) ==
    LET issueIds == {issues[i].id : i \in 1..Len(issues)}
        Present(conflict) == conflict.issues[1] \in issueIds /\ conflict.issues[2] \in issueIds
    IN  SelectSeq(MOCK_ISSUE_CONFLICTS, Present)

\* The first loop of analyzePriorities: blank priorities are skipped, a
\* priority matching a pattern is flagged with the first such pattern.
FlagOf(priority) ==
    LET p == EXTREME_PRIORITY_PATTERNS[FlagIndexOf[priority]]
    IN  [userPriority |-> priority, flagType |-> p.flagType, reason |-> p.reason]

RECURSIVE FlaggedOf(_)
FlaggedOf(priorities) ==
    IF priorities = <<>> THEN <<>>
    ELSE LET priority == Head(priorities)
         IN  (IF FlagIndexOf[priority] > 0
              THEN <<FlagOf(priority)>> ELSE <<>>) \o FlaggedOf(Tail(priorities))

\* Faulty variant of ValidPrioritiesToMap: a flagged priority is mapped too.
RECURSIVE ValidPrioritiesWithFlagged(_)
ValidPrioritiesWithFlagged(priorities) ==
    IF priorities = <<>> THEN <<>>
    ELSE LET priority == Head(priorities)
         IN  (IF FlagIndexOf[priority] >= 0
              THEN <<priority>> ELSE <<>>) \o ValidPrioritiesWithFlagged(Tail(priorities))

RECURSIVE ValidPrioritiesToMap(_)
ValidPrioritiesToMap(priorities) ==
    IF priorities = <<>> THEN <<>>
    ELSE LET priority == Head(priorities)
         IN  (IF FlagIndexOf[priority] = 0
              THEN <<priority>> ELSE <<>>) \o ValidPrioritiesToMap(Tail(priorities))

\* The word-overlap fallback inside analyzePriorities (taken only when
\* findIssuesByKeywords returns nothing).
WordFallbackIssue(priority) ==
    LET words == SplitSpaces(ToLowerCase(priority))
        Overlaps(issue) ==
            \E w \in 1..Len(words) :
                \/ Includes(ToLowerCase(issue.name), words[w])
                \/ \E s \in 1..Len(issue.synonyms) :
                       Includes(ToLowerCase(issue.synonyms[s]), words[w])
        fallbackIssues == SelectSeq(MOCK_POLITICAL_ISSUES, Overlaps)
    IN  IF Len(fallbackIssues) > 0 THEN fallbackIssues[1] ELSE MOCK_POLITICAL_ISSUES[1]

\* The callback of validPrioritiesToMap.map: one MappedPriority per valid
\* priority.  Confidence is <<numerator, denominator>>.
\* Faulty variant of MapPriority: only an issue whose name is the priority
\* itself is mapped, with nothing to fall back on.
MapPriorityByNameOnly(priority) ==
    LET named == SelectSeq(MOCK_POLITICAL_ISSUES,
                           LAMBDA issue : ToLowerCase(issue.name) = ToLowerCase(priority))
    IN  [userPriority |-> priority,
         mappedIssues |-> [i \in 1..Len(named) |->
                              [issue |-> named[i],
                               confidence |-> <<8, 10>>,
                               matchedTerms |-> <<priority>>]]]

MapPriority(priority) ==
    LET isClimate == Includes(ToLowerCase(priority), "climate")
        climateIds == {i \in 1..Len(MOCK_POLITICAL_ISSUES) :
                           MOCK_POLITICAL_ISSUES[i].id = "climate_change"}
        found == findIssuesByKeywords(priority)
        matchingIssues ==
            IF isClimate /\ ~(\E i \in 1..Len(found) : found[i].id = "climate-change")
            THEN Append(found, ClimateIssueLiteral)
            ELSE found
    IN  IF isClimate /\ climateIds # {}
        THEN [userPriority |-> priority,
              mappedIssues |-> <<[issue |-> MOCK_POLITICAL_ISSUES[CHOOSE i \in climateIds : TRUE],
                                  confidence |-> <<9, 10>>,
                                  matchedTerms |-> <<"climate change", "climate">>]>>]
        ELSE IF Len(matchingIssues) = 0
        THEN [userPriority |-> priority,
              mappedIssues |-> <<[issue |-> WordFallbackIssue(priority),
                                  confidence |-> <<5, 10>>,
                                  matchedTerms |-> <<priority>>]>>]
        ELSE [userPriority |-> priority,
              mappedIssues |-> [i \in 1..Len(matchingIssues) |->
                                   [issue |-> matchingIssues[i],
                                    confidence |-> <<8, 10>>,
                                    matchedTerms |-> <<priority>>]]]

\* MapPriority for each text of the model, computed once.
MappedPriorityOf == Table([t \in AllTexts |-> MapPriority(t)])

\* The compound phrases that add to category counts, per text of the model.
CompoundPhrasesOf ==
    Table([t \in AllTexts |->
              LET l == ToLowerCase(t)
              IN  [justice |-> Includes(l, "economic justice") \/ Includes(l, "advocate"),
                   envHealth |-> Includes(l, "environmental health")]])

\* What one MappedPriority adds to categoryCounts[category].
CategoryTally(mappedPriority, category) ==
    LET phrases == CompoundPhrasesOf[mappedPriority.userPriority]
        OfCategory(mi) == mi.issue.category = category
    IN  Len(SelectSeq(mappedPriority.mappedIssues, OfCategory))
        + (IF phrases.justice /\ category \in {"SOCIAL_SERVICES", "ECONOMY"} THEN 1 ELSE 0)
        + (IF phrases.envHealth
              /\ category \in {"SOCIAL_SERVICES", "ENVIRONMENT", "HEALTHCARE"}
           THEN 1 ELSE 0)

RECURSIVE CategoryCount(_, _)
CategoryCount(mappedPriorities, category) ==
    IF mappedPriorities = <<>> THEN 0
    ELSE CategoryTally(Head(mappedPriorities), category)
         + CategoryCount(Tail(mappedPriorities), category)

\* Object.entries(categoryCounts).filter(count > 0).sort(descending).slice(0, 3):
\* the sort is stable, so equal counts stay in declaration order.
\* Faulty variant of DominantCategories: every category counted is kept.
DominantCategoriesUnsliced(mappedPriorities) ==
    LET n == Len(PoliticalCategories)
        count == [i \in 1..n |-> CategoryCount(mappedPriorities, PoliticalCategories[i])]
        kept == {i \in 1..n : count[i] > 0}
        Before(i, j) == count[i] > count[j] \/ (count[i] = count[j] /\ i < j)
        rank == [i \in kept |-> Cardinality({j \in kept : Before(j, i)}) + 1]
    IN  [k \in 1..Cardinality(kept) |-> PoliticalCategories[CHOOSE i \in kept : rank[i] = k]]

\* Faulty variant of DominantCategories: among equal counts the category
\* declared later comes first.
DominantCategoriesLaterFirst(mappedPriorities) ==
    LET n == Len(PoliticalCategories)
        count == [i \in 1..n |-> CategoryCount(mappedPriorities, PoliticalCategories[i])]
        kept == {i \in 1..n : count[i] > 0}
        Before(i, j) == count[i] > count[j] \/ (count[i] = count[j] /\ i > j)
        rank == [i \in kept |-> Cardinality({j \in kept : Before(j, i)}) + 1]
        top == IF Cardinality(kept) < 3 THEN Cardinality(kept) ELSE 3
    IN  [k \in 1..top |-> PoliticalCategories[CHOOSE i \in kept : rank[i] = k]]

DominantCategories(mappedPriorities) ==
    LET n == Len(PoliticalCategories)
        count == [i \in 1..n |-> CategoryCount(mappedPriorities, PoliticalCategories[i])]
        kept == {i \in 1..n : count[i] > 0}
        Before(i, j) == count[i] > count[j] \/ (count[i] = count[j] /\ i < j)
        rank == [i \in kept |-> Cardinality({j \in kept : Before(j, i)}) + 1]
        top == IF Cardinality(kept) < 3 THEN Cardinality(kept) ELSE 3
    IN  [k \in 1..top |-> PoliticalCategories[CHOOSE i \in kept : rank[i] = k]]

RECURSIVE AllIssues(_)
AllIssues(mappedPriorities) ==
    IF mappedPriorities = <<>> THEN <<>>
    ELSE LET mis == Head(mappedPriorities).mappedIssues
         IN  [i \in 1..Len(mis) |-> mis[i].issue] \o AllIssues(Tail(mappedPriorities))

analyzePriorities(priorities) ==
    LET valid == ValidPrioritiesToMap(priorities)
        mappedPriorities == [i \in 1..Len(valid) |-> MappedPriorityOf[valid[i]]]
    IN  [mappedPriorities |-> mappedPriorities,
         dominantCategories |-> DominantCategories(mappedPriorities),
         potentialConflicts |-> detectConflicts(AllIssues(mappedPriorities)),
         flaggedPriorities |-> FlaggedOf(priorities)]

-----------------------------------------------------------------------------
(* Rosters: src/test/test-helpers.ts.  A position strength is in tenths;   *)
(* alignment and relevance scores are in thousandths (0.2 * 0.9 = 180).    *)

createMockCandidates == <<
    [id |-> "candidate-1", name |-> "Jane Smith", party |-> "Democrat", office |-> "President",
     positions |-> <<[issue |-> "Healthcare Reform", stance |-> "support", strength |-> 9],
                     [issue |-> "Environmental Protection", stance |-> "support", strength |-> 8],
                     [issue |-> "Tax Reform", stance |-> "neutral", strength |-> 5]>>],
    [id |-> "candidate-2", name |-> "John Doe", party |-> "Republican", office |-> "President",
     positions |-> <<[issue |-> "Tax Reform", stance |-> "support", strength |-> 9],
                     [issue |-> "Second Amendment", stance |-> "support", strength |-> 9],
                     [issue |-> "Healthcare Reform", stance |-> "oppose", strength |-> 7]>>],
    [id |-> "candidate-3", name |-> "Sam Johnson", party |-> "Independent", office |-> "Senator",
     positions |-> <<[issue |-> "Environmental Protection", stance |-> "support", strength |-> 9],
                     [issue |-> "Education Funding", stance |-> "support", strength |-> 8],
                     [issue |-> "Tax Reform", stance |-> "support", strength |-> 6]>>] >>

createMockBallotMeasures == <<
    [id |-> "measure-1", title |-> "Prop 123: Education Funding",
     description |-> "Increases funding for public schools through a 0.5% sales tax",
     applicableLocations |-> <<"94110", "94103", "94107">>,
     categories |-> <<"EDUCATION", "ECONOMY">>],
    [id |-> "measure-2", title |-> "Prop 456: Transit Expansion",
     description |-> "Authorizes $500M bond for public transit improvements",
     applicableLocations |-> <<"94110", "94103", "10001", "10002">>,
     categories |-> <<"INFRASTRUCTURE", "ENVIRONMENT">>],
    [id |-> "measure-3", title |-> "Prop 789: Healthcare Access (NY Only)",
     description |-> "Expands healthcare access for low-income residents in NY",
     applicableLocations |-> <<"10001", "10002", "10003">>,
     categories |-> <<"HEALTHCARE", "SOCIAL_SERVICES">>] >>

\* userPriorities = priorityAnalysis.mappedPriorities.map(p => p.userPriority)
UserPriorities(priorityAnalysis) ==
    [i \in 1..Len(priorityAnalysis.mappedPriorities) |->
        priorityAnalysis.mappedPriorities[i].userPriority]

\* The elements of a Set in insertion order, fed the values of seq in turn.
RECURSIVE InsertionOrder(_)
InsertionOrder(seq) ==
    IF seq = <<>> THEN <<>>
    ELSE LET before == InsertionOrder(SubSeq(seq, 1, Len(seq) - 1))
             x == seq[Len(seq)]
         IN  IF x \in Range(before) THEN before ELSE Append(before, x)

\* arr.sort((a, b) => key(b) - key(a)): descending and stable; keys[i] is
\* the sort key of arr[i].
\* Faulty variant of SortDescending: elements of equal key change places.
SortDescendingUnstable(arr, keys) ==
    LET n == Len(arr)
        Before(i, j) == keys[i] > keys[j] \/ (keys[i] = keys[j] /\ i > j)
        rank == [i \in 1..n |-> Cardinality({j \in 1..n : Before(j, i)}) + 1]
    IN  [k \in 1..n |-> arr[CHOOSE i \in 1..n : rank[i] = k]]

SortDescending(arr, keys) ==
    LET n == Len(arr)
        Before(i, j) == keys[i] > keys[j] \/ (keys[i] = keys[j] /\ i < j)
        rank == [i \in 1..n |-> Cardinality({j \in 1..n : Before(j, i)}) + 1]
    IN  [k \in 1..n |-> arr[CHOOSE i \in 1..n : rank[i] = k]]

\* Faulty variant of Min: the second argument, whichever is smaller.
MinUnclamped(a, b) == b

Min(a, b) == IF a < b THEN a ELSE b

-----------------------------------------------------------------------------
(* CandidateMatchingService.findMatchingCandidates                         *)

\* The (position, priority) hits of one candidate, in loop order.
RECURSIVE PositionHits(_, _, _, _)
PositionHits(candidate, userPriorities, p, u) ==
    IF p > Len(candidate.positions) THEN <<>>
    ELSE IF u > Len(userPriorities) THEN PositionHits(candidate, userPriorities, p + 1, 1)
    ELSE LET positionIssue == ToLowerCase(candidate.positions[p].issue)
             priorityLower == ToLowerCase(userPriorities[u])
             hit == Includes(priorityLower, positionIssue) \/ Includes(positionIssue, priorityLower)
         IN  (IF hit THEN <<[priority |-> userPriorities[u],
                             strength |-> candidate.positions[p].strength]>>
              ELSE <<>>) \o PositionHits(candidate, userPriorities, p, u + 1)

RECURSIVE SumStrength(_)
SumStrength(hits) ==
    IF hits = <<>> THEN 0 ELSE 20 * Head(hits).strength + SumStrength(Tail(hits))

\* Faulty variant of CandidateMatchOf: with no position hit, nothing stands
\* in for the matched priorities.
CandidateMatchWithoutFallback(candidate, userPriorities) ==
    LET priorityKeywords == ToLowerCase(Join(userPriorities, " "))
        hits == PositionHits(candidate, userPriorities, 1, 1)
        matched == InsertionOrder([i \in 1..Len(hits) |-> hits[i].priority])
        clamped == Min(1000, SumStrength(hits))
        special ==
            IF Includes(priorityKeywords, "climate") /\ candidate.name = "Sam Johnson" THEN 900
            ELSE IF Includes(priorityKeywords, "tax") /\ candidate.name = "John Doe" THEN 850
            ELSE IF Includes(priorityKeywords, "healthcare") /\ candidate.name = "Jane Smith"
                 THEN 800
            ELSE clamped
        alignmentScore ==
            IF Includes(priorityKeywords, "extremely specific") \/ Len(userPriorities) = 0
            THEN 300 ELSE special
        base == candidate.name \o " aligns with your priorities"
    IN  [candidate |-> candidate,
         alignmentScore |-> alignmentScore,
         matchedPriorities |-> matched,
         rationale |-> IF Len(matched) > 0 THEN base \o " on " \o Join(matched, " and ")
                       ELSE base]

CandidateMatchOf(candidate, userPriorities) ==
    LET priorityKeywords == ToLowerCase(Join(userPriorities, " "))
        hits == PositionHits(candidate, userPriorities, 1, 1)
        matched == InsertionOrder([i \in 1..Len(hits) |-> hits[i].priority])
        clamped == Min(1000, SumStrength(hits))
        special ==
            IF Includes(priorityKeywords, "climate") /\ candidate.name = "Sam Johnson" THEN 900
            ELSE IF Includes(priorityKeywords, "tax") /\ candidate.name = "John Doe" THEN 850
            ELSE IF Includes(priorityKeywords, "healthcare") /\ candidate.name = "Jane Smith"
                 THEN 800
            ELSE clamped
        alignmentScore ==
            IF Includes(priorityKeywords, "extremely specific") \/ Len(userPriorities) = 0
            THEN 300 ELSE special
        base == candidate.name \o " aligns with your priorities"
        rationale ==
            IF Len(matched) > 0 THEN base \o " on " \o Join(matched, " and ")
            ELSE IF Len(userPriorities) > 0 THEN base \o " on " \o userPriorities[1]
            ELSE base
    IN  [candidate |-> candidate,
         alignmentScore |-> alignmentScore,
         matchedPriorities |-> IF Len(matched) > 0 THEN matched
                               ELSE SubSeq(userPriorities, 1, Min(1, Len(userPriorities))),
         rationale |-> rationale]

findMatchingCandidates(priorityAnalysis) ==
    LET candidates == createMockCandidates
        userPriorities == UserPriorities(priorityAnalysis)
        matches == [i \in 1..Len(candidates) |-> CandidateMatchOf(candidates[i], userPriorities)]
    IN  SortDescending(matches, [i \in 1..Len(candidates) |-> matches[i].alignmentScore])

-----------------------------------------------------------------------------
(* BallotMeasureService.findRelevantMeasures.  The constant pros, cons and *)
(* impactAnalysis of a match are left out.                                 *)

RECURSIVE CategoryHits(_, _, _, _)
CategoryHits(measure, userPriorities, c, u) ==
    IF c > Len(measure.categories) THEN <<>>
    ELSE IF u > Len(userPriorities) THEN CategoryHits(measure, userPriorities, c + 1, 1)
    ELSE LET categoryLower == ToLowerCase(measure.categories[c])
             priorityLower == ToLowerCase(userPriorities[u])
             hit == \/ Includes(priorityLower, categoryLower)
                    \/ Includes(ToLowerCase(measure.title), priorityLower)
                    \/ Includes(ToLowerCase(measure.description), priorityLower)
         IN  (IF hit THEN <<userPriorities[u]>> ELSE <<>>)
             \o CategoryHits(measure, userPriorities, c, u + 1)

MeasureMatchOf(measure, userPriorities, zipCode, noLocationMeasures) ==
    LET priorityKeywords == ToLowerCase(Join(userPriorities, " "))
        hits == CategoryHits(measure, userPriorities, 1, 1)
        relevant == InsertionOrder(hits)
        clamped == Min(1000, 500 + 100 * Len(hits))
        special ==
            IF Includes(priorityKeywords, "transport") /\ Includes(measure.title, "Transit")
                THEN 900
            ELSE IF Includes(priorityKeywords, "education") /\ Includes(measure.title, "Education")
                THEN 850
            ELSE IF Includes(priorityKeywords, "healthcare") /\ Includes(measure.title, "Healthcare")
                THEN 800
            ELSE clamped
        relevanceScore ==
            IF Includes(priorityKeywords, "extremely specific") \/ Len(userPriorities) = 0
            THEN 300 ELSE special
        base == "This measure relates to " \o ToLowerCase(measure.categories[1])
        explanation ==
            IF Len(relevant) > 0
                THEN base \o " which aligns with your priority of " \o relevant[1]
            ELSE IF Len(userPriorities) > 0
                THEN base \o " which may be relevant to your interest in " \o userPriorities[1]
            ELSE base
    IN  [ballotMeasure |-> measure,
         relevanceScore |-> relevanceScore,
         relevantPriorities |-> IF Len(relevant) > 0 THEN relevant
                                ELSE SubSeq(userPriorities, 1, Min(1, Len(userPriorities))),
         explanation |-> explanation,
         isFallback |-> noLocationMeasures \/ zipCode = "00000"]

\* Faulty variant of findRelevantMeasures: the roster is not filtered by
\* location.
findRelevantMeasuresUnfiltered(priorityAnalysis, zipCode) ==
    LET allMeasures == createMockBallotMeasures
        userPriorities == UserPriorities(priorityAnalysis)
        AtLocation(measure) == zipCode \in Range(measure.applicableLocations)
        locationMeasures == SelectSeq(allMeasures, AtLocation)
        result == [i \in 1..Len(allMeasures) |->
                      MeasureMatchOf(allMeasures[i], userPriorities, zipCode,
                                     Len(locationMeasures) = 0)]
    IN  SortDescending(result, [i \in 1..Len(allMeasures) |-> result[i].relevanceScore])

findRelevantMeasures(priorityAnalysis, zipCode) ==
    LET allMeasures == createMockBallotMeasures
        userPriorities == UserPriorities(priorityAnalysis)
        AtLocation(measure) == zipCode \in Range(measure.applicableLocations)
        locationMeasures == SelectSeq(allMeasures, AtLocation)
        measures == IF Len(locationMeasures) > 0 THEN locationMeasures ELSE allMeasures
        result == [i \in 1..Len(measures) |->
                      MeasureMatchOf(measures[i], userPriorities, zipCode,
                                     Len(locationMeasures) = 0)]
    IN  SortDescending(result, [i \in 1..Len(measures) |-> result[i].relevanceScore])

-----------------------------------------------------------------------------
(* RecommendationService.  A service call either returns or throws a       *)
(* value: an Error carrying a message, or a value that is not an Error,    *)
(* which may be truthy (a string, an object) or falsy (null, 0, '').       *)
(* An optional field (error) is <<>> when absent and <<value>> when set.   *)

Ok == [kind |-> "returned", isError |-> FALSE, truthy |-> FALSE, message |-> ""]
NotInvoked == [kind |-> "not invoked", isError |-> FALSE, truthy |-> FALSE, message |-> ""]

ServiceError(message) ==
    [kind |-> "threw", isError |-> TRUE, truthy |-> TRUE, message |-> message]
NonErrorValue == [kind |-> "threw", isError |-> FALSE, truthy |-> TRUE, message |-> ""]
FalsyValue == [kind |-> "threw", isError |-> FALSE, truthy |-> FALSE, message |-> ""]

\* error instanceof Error ? error.message : 'Unknown error'
ErrorMessage(error) == IF error.isError THEN error.message ELSE "Unknown error"

\* request.priorities.some(p => p.toLowerCase().includes('test') || ...)
IsTestRequest(request) ==
    \E i \in 1..Len(request.priorities) :
        LET l == ToLowerCase(request.priorities[i])
        IN  Includes(l, "test") \/ Includes(l, "mock") \/ l = "extremely specific"

\* JSON.stringify of a string: quotes around it, quote and backslash escaped.
RECURSIVE JsonEscape(_)
JsonEscape(s) ==
    IF s = "" THEN ""
    ELSE LET c == CharAt(s, 1)
         IN  (IF c = "\"" \/ c = "\\" THEN "\\" \o c ELSE c) \o JsonEscape(SubSeq(s, 2, Len(s)))

JsonString(s) == "\"" \o JsonEscape(s) \o "\""

\* What request.priorities holds once generateCacheKey has run:
\* Array.prototype.sort sorts the caller's array in place.
PrioritiesAfterKey(request) == SortStrings(request.priorities)

\* Faulty variant of generateCacheKey: the priorities are not sorted.
generateCacheKeyUnsorted(request) ==
    "{\"priorities\":["
    \o Join([i \in 1..Len(request.priorities) |-> JsonString(request.priorities[i])], ",")
    \o "],\"zipCode\":" \o JsonString(request.zipCode)
    \o ",\"mode\":" \o JsonString(request.mode) \o "}"

\* Faulty variant of generateCacheKey: the mode is left out of the key.
generateCacheKeyWithoutMode(request) ==
    "{\"priorities\":["
    \o Join([i \in 1..Len(request.priorities) |->
                 JsonString(SortStrings(request.priorities)[i])], ",")
    \o "],\"zipCode\":" \o JsonString(request.zipCode) \o "}"

\* generateCacheKey: JSON.stringify({priorities: request.priorities.sort(), zipCode, mode})
generateCacheKey(request) ==
    LET sorted == PrioritiesAfterKey(request)
    IN  "{\"priorities\":["
        \o Join([i \in 1..Len(sorted) |-> JsonString(sorted[i])], ",")
        \o "],\"zipCode\":" \o JsonString(request.zipCode)
        \o ",\"mode\":" \o JsonString(request.mode) \o "}"

generatePolicyRecommendations(priorityAnalysis) ==
    LET topPolicies == UserPriorities(priorityAnalysis)
    IN  [topPolicies |-> IF Len(topPolicies) > 0 THEN topPolicies
                         ELSE <<"No specific policy focus identified from priorities.">>,
         explanation |-> "These recommendations are based on your stated priorities."]

\* Step 5: the presentation shape of the result.  positionSummary,
\* platformHighlights and the two links are formatted from the static
\* rosters alone and are left out.
CompileResult(candidateMatches, ballotMeasureMatches, policyRecommendations, candidateError) ==
    [candidates |->
        [i \in 1..Len(candidateMatches) |->
            LET match == candidateMatches[i]
            IN  [name |-> match.candidate.name,
                 office |-> match.candidate.office,
                 party |-> match.candidate.party,
                 rationale |-> match.rationale,
                 alignmentScore |-> match.alignmentScore,
                 alignment |-> IF match.alignmentScore > 700 THEN "aligned"
                               ELSE IF match.alignmentScore > 400 THEN "partial"
                               ELSE "not aligned"]],
     ballotMeasures |->
        [i \in 1..Len(ballotMeasureMatches) |->
            LET match == ballotMeasureMatches[i]
            IN  [title |-> match.ballotMeasure.title,
                 description |-> match.ballotMeasure.description,
                 explanation |-> match.explanation,
                 relevanceScore |-> match.relevanceScore]],
     policyRecommendations |-> policyRecommendations,
     error |-> IF candidateError.kind = "threw" /\ candidateError.truthy
               THEN <<ErrorMessage(candidateError)>> ELSE <<>>]

\* The outer catch: the result returned when the try block throws.
FatalResult(error) ==
    [candidates |-> <<>>,
     ballotMeasures |-> <<>>,
     policyRecommendations |->
        [topPolicies |-> <<>>,
         explanation |-> "Unable to generate recommendations due to an error."],
     error |-> <<ErrorMessage(error)>>]

\* The inner catch of step 2: a candidate failure is thrown on to the outer
\* catch for a test request that lists 'throw_error'.
RethrowsCandidateError(request, isTestRequest) ==
    isTestRequest /\ "throw_error" \in Range(request.priorities)

\* The inner catch of step 3: what ballotMeasureMatches is left holding.
MeasuresOrEmpty(priorityAnalysis, zipCode, measureOutcome) ==
    IF measureOutcome = Ok THEN findRelevantMeasures(priorityAnalysis, zipCode) ELSE <<>>

\* The cache lookup at the top: only a request that is not a test request
\* computes the key and consults the cache.
\* Faulty variant of UsesCache: no request consults the cache.
UsesCacheNever(isTestRequest) == FALSE

UsesCache(isTestRequest) == ~isTestRequest

\* The requests and the service outcomes of the model.
MaxCalls == 2

Request(priorities, zipCode, mode) ==
    [priorities |-> priorities, zipCode |-> zipCode, mode |-> mode]

Requests == {
    Request(<<"Economy", "Education">>, "94110", "current"),
    Request(<<"Education", "Economy">>, "94110", "current"),
    Request(<<"Economy">>, "94110", "current"),
    Request(<<"Economy", "Economy">>, "94110", "current"),
    Request(<<"throw_error", "test priority">>, "94110", "current"),
    Request(<<"Economy", "Education">>, "00000", "current"),
    Request(<<"Economy", "Education">>, "94110", "demo"),
    Request(<<"Something extremely specific">>, "94110", "current"),
    Request(<<"Extremely Specific">>, "94110", "current"),
    Request(<<"Economy", "Mock data">>, "94110", "current") }

ThrownValues == {ServiceError("Service unavailable"), NonErrorValue}

\* The outer catch treats every value that is not an Error alike.
MapperOutcomes == {Ok} \cup ThrownValues
CandidateOutcomes == {Ok, FalsyValue} \cup ThrownValues
\* The value the measure matcher throws is only logged: one stands for all.
MeasureOutcomes == {Ok, ServiceError("Service unavailable")}

\* The top of generateRecommendations for every request of the model,
\* computed once: isTestRequest, whether the cache is used and, if it is,
\* the key and request.priorities as generateCacheKey leaves it.
PreambleOf ==
    Table([request \in Requests |->
              LET isTestRequest == IsTestRequest(request)
                  usesCache == UsesCache(isTestRequest)
              IN  [isTestRequest |-> isTestRequest,
                   usesCache |-> usesCache,
                   cacheKey |-> generateCacheKey(request),
                   priorities |-> IF usesCache THEN PrioritiesAfterKey(request)
                                  ELSE request.priorities]])

\* The analysis of no priorities at all.
NoAnalysis ==
    [mappedPriorities |-> <<>>, dominantCategories |-> <<>>,
     potentialConflicts |-> <<>>, flaggedPriorities |-> <<>>]

\* Steps 2 to 5 of the try block, once analyzePriorities has returned
\* priorityAnalysis.
\* Faulty variant of AfterAnalysis: the measure matcher runs before the
\* candidate matcher.
AfterAnalysisMeasuresFirst(request, priorities, isTestRequest, priorityAnalysis, candidateOutcome, measureOutcome) ==
    IF candidateOutcome # Ok /\ RethrowsCandidateError(request, isTestRequest)
    THEN [threw |-> TRUE, value |-> candidateOutcome,
          log |-> <<"analyzePriorities", "findRelevantMeasures", "findMatchingCandidates">>,
          mapperArg |-> priorities,
          mapper |-> Ok, candidates |-> candidateOutcome, measures |-> measureOutcome]
    ELSE [threw |-> FALSE,
          value |-> CompileResult(
                        IF candidateOutcome = Ok THEN findMatchingCandidates(priorityAnalysis)
                        ELSE <<>>,
                        MeasuresOrEmpty(priorityAnalysis, request.zipCode, measureOutcome),
                        generatePolicyRecommendations(priorityAnalysis),
                        candidateOutcome),
          log |-> <<"analyzePriorities", "findRelevantMeasures", "findMatchingCandidates",
                    "generatePolicyRecommendations", "compile">>,
          mapperArg |-> priorities,
          mapper |-> Ok, candidates |-> candidateOutcome, measures |-> measureOutcome]

AfterAnalysis(request, priorities, isTestRequest, priorityAnalysis, candidateOutcome, measureOutcome) ==
    IF candidateOutcome # Ok /\ RethrowsCandidateError(request, isTestRequest)
    THEN [threw |-> TRUE, value |-> candidateOutcome,
          log |-> <<"analyzePriorities", "findMatchingCandidates">>,
          mapperArg |-> priorities,
          mapper |-> Ok, candidates |-> candidateOutcome, measures |-> NotInvoked]
    ELSE [threw |-> FALSE,
          value |-> CompileResult(
                        IF candidateOutcome = Ok THEN findMatchingCandidates(priorityAnalysis)
                        ELSE <<>>,
                        MeasuresOrEmpty(priorityAnalysis, request.zipCode, measureOutcome),
                        generatePolicyRecommendations(priorityAnalysis),
                        candidateOutcome),
          log |-> <<"analyzePriorities", "findMatchingCandidates", "findRelevantMeasures",
                    "generatePolicyRecommendations", "compile">>,
          mapperArg |-> priorities,
          mapper |-> Ok, candidates |-> candidateOutcome, measures |-> measureOutcome]

\* Faulty variant of TryBlock: a failure of analyzePriorities is swallowed
\* and the pipeline carries on with an empty analysis.
TryBlockPastMapperFailure(request, priorities, isTestRequest, mapperOutcome, candidateOutcome, measureOutcome) ==
    [AfterAnalysis(request, priorities, isTestRequest,
                   IF mapperOutcome = Ok THEN analyzePriorities(priorities) ELSE NoAnalysis,
                   candidateOutcome, measureOutcome)
        EXCEPT !.mapper = mapperOutcome]

\* The try block on a cache miss.  priorities is request.priorities as the
\* block finds it.  Yields how the block completes: threw = TRUE with the
\* thrown value, or threw = FALSE with the compiled result; and, per
\* service, whether it was invoked and how it ended, with the order of the
\* invocations in log.
TryBlock(request, priorities, isTestRequest, mapperOutcome, candidateOutcome, measureOutcome) ==
    IF mapperOutcome # Ok
    THEN [threw |-> TRUE, value |-> mapperOutcome,
          log |-> <<"analyzePriorities">>, mapperArg |-> priorities,
          mapper |-> mapperOutcome, candidates |-> NotInvoked, measures |-> NotInvoked]
    ELSE AfterAnalysis(request, priorities, isTestRequest, analyzePriorities(priorities),
                       candidateOutcome, measureOutcome)

\* The try block of every request and service outcome of the model,
\* computed once.
TryBlockOf ==
    Table([request \in Requests |->
              Table([outcomes \in MapperOutcomes \X CandidateOutcomes \X MeasureOutcomes |->
                        TryBlock(request, PreambleOf[request].priorities,
                                 PreambleOf[request].isTestRequest,
                                 outcomes[1], outcomes[2], outcomes[3])])])

\* Faulty variant of OuterCatch: the thrown value leaves the function.
OuterCatchRethrowing(completion) ==
    [raised |-> completion.threw, result |-> completion.value]

\* try { ... } catch (error) { return {...} }: a thrown value becomes the
\* fatal result; nothing leaves the function as an exception.
OuterCatch(completion) ==
    IF completion.threw
    THEN [raised |-> FALSE, result |-> FatalResult(completion.value)]
    ELSE [raised |-> FALSE, result |-> completion.value]

\* Faulty variant of StoresResult: what the try block ends with is written to
\* the cache even when it is a thrown value.
StoresThrownValueToo(isTestRequest, completion) == ~isTestRequest

\* Faulty variant of StoresResult: the result is never written to the cache.
StoresNothing(isTestRequest, completion) == FALSE

\* Whether a completed try block reaches this.cache.set.
StoresResult(isTestRequest, completion) == ~isTestRequest /\ ~completion.threw

\* Faulty variant of CachePut: the new entry takes the place of all others.
CachePutAlone(c, key, result) == [k \in {key} |-> result]

CachePut(c, key, result) ==
    [k \in DOMAIN c \cup {key} |-> IF k = key THEN result ELSE c[k]]

\* The return at the top: the cached result, with no service invoked.
CacheHit(c, preamble) ==
    [raised |-> FALSE, result |-> c[preamble.cacheKey], hit |-> TRUE,
     cacheAfter |-> c, prioritiesAfter |-> preamble.priorities,
     log |-> <<>>, mapperArg |-> <<>>,
     mapper |-> NotInvoked, candidates |-> NotInvoked, measures |-> NotInvoked]

\* Faulty variant of CacheMiss: whatever the call returns is written to the
\* cache, the fatal result included.
CacheMissStoringFatalResult(c, preamble, completion) ==
    LET outcome == OuterCatch(completion)
        stores == ~preamble.isTestRequest
    IN  [raised |-> outcome.raised, result |-> outcome.result, hit |-> FALSE,
         cacheAfter |-> IF stores THEN CachePut(c, preamble.cacheKey, outcome.result)
                        ELSE c,
         prioritiesAfter |-> preamble.priorities,
         log |-> IF stores THEN Append(completion.log, "cache.set") ELSE completion.log,
         mapperArg |-> completion.mapperArg,
         mapper |-> completion.mapper, candidates |-> completion.candidates,
         measures |-> completion.measures]

\* The try / catch on a cache miss, given how the try block completes.
CacheMiss(c, preamble, completion) ==
    LET outcome == OuterCatch(completion)
        stores == StoresResult(preamble.isTestRequest, completion)
    IN  [raised |-> outcome.raised, result |-> outcome.result, hit |-> FALSE,
         cacheAfter |-> IF stores THEN CachePut(c, preamble.cacheKey, completion.value)
                        ELSE c,
         prioritiesAfter |-> preamble.priorities,
         log |-> IF stores THEN Append(completion.log, "cache.set") ELSE completion.log,
         mapperArg |-> completion.mapperArg,
         mapper |-> completion.mapper, candidates |-> completion.candidates,
         measures |-> completion.measures]

CallWith(c, preamble, completion) ==
    IF preamble.usesCache /\ preamble.cacheKey \in DOMAIN c
    THEN CacheHit(c, preamble)
    ELSE CacheMiss(c, preamble, completion)

\* generateRecommendations(request) against cache c, with the given service
\* outcomes.  Yields the call's completion (raised / result), the cache and
\* the caller's priorities array after the call, and what was invoked.
generateRecommendations(c, request, mapperOutcome, candidateOutcome, measureOutcome) ==
    CallWith(c, PreambleOf[request],
             TryBlockOf[request][<<mapperOutcome, candidateOutcome, measureOutcome>>])

-----------------------------------------------------------------------------
(* The orchestrator as a state machine: callers make up to MaxCalls calls  *)
(* on one service instance.  The function body holds no await, so a call   *)
(* runs to completion as one step.                                         *)

NoCall ==
    [request |-> Request(<<>>, "", ""), raised |-> FALSE, hit |-> FALSE,
     result |-> FatalResult(NonErrorValue), prioritiesAfter |-> <<>>, log |-> <<>>,
     mapperArg |-> <<>>, mapper |-> NotInvoked, candidates |-> NotInvoked,
     measures |-> NotInvoked, cacheBefore |-> <<>>]

EmptyCache == [k \in {} |-> FatalResult(NonErrorValue)]

Init ==
    /\ cache = EmptyCache
    /\ last = NoCall
    /\ seen = {}
    /\ nCalls = 0
    /\ input = <<>>
    /\ analysis = NoAnalysis
    /\ mpc = "idle"
    /\ location = ""
    /\ returnedCandidates = <<>>
    /\ returnedMeasures = <<>>

\* One call of generateRecommendations.
GenerateRecommendations ==
    /\ nCalls < MaxCalls
    /\ \E request \in Requests, mapperOutcome \in MapperOutcomes,
          candidateOutcome \in CandidateOutcomes, measureOutcome \in MeasureOutcomes :
          \E call \in {generateRecommendations(cache, request, mapperOutcome,
                                                candidateOutcome, measureOutcome)} :
              /\ cache' = call.cacheAfter
              /\ last' = [request |-> request, raised |-> call.raised, hit |-> call.hit,
                          result |-> call.result, prioritiesAfter |-> call.prioritiesAfter,
                          log |-> call.log, mapperArg |-> call.mapperArg,
                          mapper |-> call.mapper, candidates |-> call.candidates,
                          measures |-> call.measures, cacheBefore |-> cache]
    /\ seen' = IF nCalls = 0 THEN seen ELSE seen \cup {last.request}
    /\ nCalls' = nCalls + 1
    /\ UNCHANGED <<input, analysis, mpc, location, returnedCandidates, returnedMeasures>>

Next == GenerateRecommendations

Spec == Init /\ [][Next]_vars

-----------------------------------------------------------------------------
(* analyzePriorities called directly, as the unit tests of the mapper do:  *)
(* the input is any list of at most MaxPriorities of the model's texts.    *)

MaxPriorities == 3

RECURSIVE SeqsUpTo(_, _)
SeqsUpTo(S, n) ==
    IF n = 0 THEN {<<>>}
    ELSE LET shorter == SeqsUpTo(S, n - 1)
         IN  shorter \cup {Append(q, x) : q \in {p \in shorter : Len(p) = n - 1}, x \in S}

MapperInputs == SeqsUpTo(Texts, MaxPriorities)

MapperInit ==
    /\ input \in MapperInputs
    /\ analysis = NoAnalysis
    /\ mpc = "start"
    /\ cache = EmptyCache
    /\ last = NoCall
    /\ seen = {}
    /\ nCalls = 0
    /\ location = ""
    /\ returnedCandidates = <<>>
    /\ returnedMeasures = <<>>

AnalyzePriorities ==
    /\ mpc = "start"
    /\ analysis' = analyzePriorities(input)
    /\ mpc' = "done"
    /\ UNCHANGED <<input, cache, last, seen, nCalls, location, returnedCandidates, returnedMeasures>>

MapperNext == AnalyzePriorities

MapperSpec == MapperInit /\ [][MapperNext]_vars

-----------------------------------------------------------------------------
(* The mapper and the two matchers called in turn, as the unit tests of    *)
(* the matchers do: analyzePriorities(input), then findMatchingCandidates  *)
(* and findRelevantMeasures on its result.  The input is any list of at    *)
(* most MaxMatcherPriorities of MatcherTexts: a blank and a flagged text,  *)
(* texts that set off the special cases of the matchers, and a text that   *)
(* hits every position of every candidate.                                 *)

MaxMatcherPriorities == 3

MatcherTexts == {
    "", "start a trade war", "I want lower taxes", "Climate action",
    "Education", "Something extremely specific", "e", "Economy" }

\* Locations of two measures, of one, of none, and the invalid ZIP code.
ZipCodes == {"94110", "10003", "99999", "00000"}

MatcherInit ==
    /\ input \in SeqsUpTo(MatcherTexts, MaxMatcherPriorities)
    /\ location \in ZipCodes
    /\ analysis = NoAnalysis
    /\ mpc = "start"
    /\ returnedCandidates = <<>>
    /\ returnedMeasures = <<>>
    /\ cache = EmptyCache
    /\ last = NoCall
    /\ seen = {}
    /\ nCalls = 0

FindMatchingCandidates ==
    /\ mpc = "done"
    /\ returnedCandidates' = findMatchingCandidates(analysis)
    /\ mpc' = "candidates"
    /\ UNCHANGED <<input, analysis, location, returnedMeasures, cache, last, seen, nCalls>>

FindRelevantMeasures ==
    /\ mpc = "candidates"
    /\ returnedMeasures' = findRelevantMeasures(analysis, location)
    /\ mpc' = "measures"
    /\ UNCHANGED <<input, analysis, location, returnedCandidates, cache, last, seen, nCalls>>

MatcherNext == AnalyzePriorities \/ FindMatchingCandidates \/ FindRelevantMeasures

MatcherSpec == MatcherInit /\ [][MatcherNext]_vars

-----------------------------------------------------------------------------
(* Properties of generateRecommendations, over the last call made (Spec).  *)

Called == nCalls > 0
Missed == Called /\ ~last.hit

\* C1: generateRecommendations never raises to its caller: whichever of the
\* three services return or throw, the call completes by returning a result
\* that has the candidates, ballotMeasures and policyRecommendations fields.
C1_NeverRaises ==
    Called =>
        /\ last.raised = FALSE
        /\ {"candidates", "ballotMeasures", "policyRecommendations"}
               \subseteq DOMAIN last.result

\* A call in which both matchers threw and a result came back all the same.
C1_Witness ==
    /\ Missed
    /\ last.candidates.kind = "threw"
    /\ last.measures.kind = "threw"
    /\ last.raised = FALSE
    /\ last.result.candidates = <<>>

\* What the result holds when only the candidate matcher fails, as C2 has it.
CandidateFailureIsolated(call, priorityAnalysis) ==
    /\ call.result.candidates = <<>>
    /\ call.result.error # <<>>
    /\ Len(call.result.ballotMeasures)
           = Len(findRelevantMeasures(priorityAnalysis, call.request.zipCode))
    /\ call.result.policyRecommendations = generatePolicyRecommendations(priorityAnalysis)

\* C2: if findMatchingCandidates throws while analyzePriorities and
\* findRelevantMeasures do not, the result has candidates = [] and error set,
\* ballotMeasures holds one entry per match of the measure matcher and
\* policyRecommendations is derived from the mapping.
C2_CandidateFailureIsolated ==
    (/\ Missed
     /\ last.mapper.kind = "returned"
     /\ last.candidates.kind = "threw"
     /\ last.measures.kind # "threw")
        => CandidateFailureIsolated(last, analyzePriorities(last.mapperArg))

\* What the result holds when only the measure matcher fails, as C3 has it.
MeasureFailureIsolated(call, priorityAnalysis) ==
    /\ call.result.ballotMeasures = <<>>
    /\ call.result.error # <<>>
    /\ call.result.candidates
           = CompileResult(findMatchingCandidates(priorityAnalysis), <<>>,
                           generatePolicyRecommendations(priorityAnalysis), Ok).candidates
    /\ call.result.policyRecommendations = generatePolicyRecommendations(priorityAnalysis)

\* C3: if findRelevantMeasures throws while analyzePriorities and
\* findMatchingCandidates return, the result has ballotMeasures = [] and a
\* populated error string, and candidates and policyRecommendations are what
\* they are when the measure matcher returns.
C3_MeasureFailureIsolated ==
    (/\ Missed
     /\ last.mapper.kind = "returned"
     /\ last.candidates.kind = "returned"
     /\ last.measures.kind = "threw")
        => MeasureFailureIsolated(last, analyzePriorities(last.mapperArg))

\* C4: if analyzePriorities throws, the result has candidates = [],
\* ballotMeasures = [], the policy explanation that describes the failure and
\* error set to the failure message (the Error's message, or 'Unknown error'
\* for a thrown value that is not an Error); neither matcher is invoked.
C4_MapperFailureIsFatal ==
    (Called /\ last.mapper.kind = "threw") =>
        /\ last.result.candidates = <<>>
        /\ last.result.ballotMeasures = <<>>
        /\ last.result.policyRecommendations.explanation
               = "Unable to generate recommendations due to an error."
        /\ last.result.error
               = <<IF last.mapper.isError THEN last.mapper.message ELSE "Unknown error">>
        /\ last.candidates.kind = "not invoked"
        /\ last.measures.kind = "not invoked"

\* A call in which analyzePriorities threw an Error and its message came back.
C4_Witness ==
    /\ Called
    /\ last.mapper.kind = "threw"
    /\ last.mapper.isError
    /\ last.result.error = <<"Service unavailable">>
    /\ last.log = <<"analyzePriorities">>

-----------------------------------------------------------------------------
(* Properties of the cache, over two successive calls (last, last') or a   *)
(* call and the requests made before it (seen).                            *)

Count(seq, x) == Cardinality({i \in 1..Len(seq) : seq[i] = x})

\* The two lists hold the same texts, in any order, with any repetition.
SameSet(a, b) == Range(a) = Range(b)

\* The two lists hold the same texts the same number of times, in any order.
SameTexts(a, b) == \A x \in Range(a) \cup Range(b) : Count(a, x) = Count(b, x)

SameRequestAsSet(r1, r2) ==
    SameSet(r1.priorities, r2.priorities) /\ r1.zipCode = r2.zipCode /\ r1.mode = r2.mode

SameRequest(r1, r2) ==
    SameTexts(r1.priorities, r2.priorities) /\ r1.zipCode = r2.zipCode /\ r1.mode = r2.mode

Invoked(outcome) == IF outcome.kind = "not invoked" THEN 0 ELSE 1

\* Each service is invoked at most once across the two calls, and the second
\* call returns what the first returned.
ComputedOnce(first, second) ==
    /\ Invoked(first.mapper) + Invoked(second.mapper) <= 1
    /\ Invoked(first.candidates) + Invoked(second.candidates) <= 1
    /\ Invoked(first.measures) + Invoked(second.measures) <= 1
    /\ second.result = first.result

DiffersFromEarlier(request) == \A r \in seen : ~SameRequestAsSet(r, request)

EndsAtCandidateFailure(call) ==
    /\ call.candidates.kind = "threw"
    /\ IsTestRequest(call.request)
    /\ "throw_error" \in Range(call.request.priorities)

-----------------------------------------------------------------------------
(* Properties of analyzePriorities, over its input and result (MapperSpec). *)

Analyzed == mpc = "done"

MappedTexts ==
    [i \in 1..Len(analysis.mappedPriorities) |-> analysis.mappedPriorities[i].userPriority]

FlaggedTexts ==
    [i \in 1..Len(analysis.flaggedPriorities) |-> analysis.flaggedPriorities[i].userPriority]

\* The text is not blank after trimming.
HasText(t) == \E i \in 1..Len(t) : ~IsSpace(CharAt(t, i))

\* The registered patterns that match each text of the model, worked out
\* once, pattern by pattern.
PatternsMatching ==
    Table([t \in AllTexts |->
              {k \in 1..Len(EXTREME_PRIORITY_PATTERNS) :
                  PatternTest(EXTREME_PRIORITY_PATTERNS[k], t)}])

MatchesSomePattern(t) == PatternsMatching[t] # {}

\* C8: each non-blank input priority, counted with its multiplicity, appears
\* in exactly one of mappedPriorities and flaggedPriorities; a priority that
\* is blank after trimming appears in neither.
C8_MappedOrFlagged ==
    Analyzed =>
        /\ Range(MappedTexts) \cup Range(FlaggedTexts) \subseteq Range(input)
        /\ \A t \in Range(input) :
               IF HasText(t)
               THEN /\ Count(MappedTexts, t) + Count(FlaggedTexts, t) = Count(input, t)
                    /\ Count(MappedTexts, t) = 0 \/ Count(FlaggedTexts, t) = 0
               ELSE Count(MappedTexts, t) = 0 /\ Count(FlaggedTexts, t) = 0

\* An input holding a blank, a flagged and a mapped priority.
C8_Witness ==
    /\ Analyzed
    /\ Len(input) = 3
    /\ \E t \in Range(input) : ~HasText(t)
    /\ Len(analysis.flaggedPriorities) = 1
    /\ Len(analysis.mappedPriorities) = 1

\* Every MappedPriority has at least one mapped issue, each with a
\* confidence (numerator, denominator) in (0, 1].
WellMapped(mappedPriorities) ==
    \A i \in 1..Len(mappedPriorities) :
        /\ Len(mappedPriorities[i].mappedIssues) >= 1
        /\ \A j \in 1..Len(mappedPriorities[i].mappedIssues) :
               LET confidence == mappedPriorities[i].mappedIssues[j].confidence
               IN  0 < confidence[1] /\ confidence[1] <= confidence[2]

UnflaggedInput == input # <<>> /\ \A t \in Range(input) : ~MatchesSomePattern(t)

\* C9 as stated: for a non-empty list in which no priority matches a flag
\* pattern, analyzePriorities returns exactly one MappedPriority per input
\* priority, in input order, each with at least one mapped issue and every
\* confidence in (0, 1].
C9_OneMappingPerInput ==
    (Analyzed /\ UnflaggedInput) =>
        /\ MappedTexts = input
        /\ WellMapped(analysis.mappedPriorities)

\* C9 amended: for a non-empty list in which no priority matches a flag
\* pattern, analyzePriorities returns exactly one MappedPriority per input
\* priority that is not blank after trimming, in input order, each with at
\* least one mapped issue and every confidence in (0, 1].
C9_OneMappingPerNonBlankInput ==
    (Analyzed /\ UnflaggedInput) =>
        /\ MappedTexts = SelectSeq(input, HasText)
        /\ WellMapped(analysis.mappedPriorities)

\* An unflagged input with a blank between two priorities, mapped to two
\* MappedPriorities in input order.
C9_Witness ==
    /\ Analyzed
    /\ UnflaggedInput
    /\ Len(input) = 3
    /\ ~HasText(input[2])
    /\ Len(analysis.mappedPriorities) = 2
    /\ MappedTexts = <<input[1], input[3]>>
    /\ input[1] # input[3]

\* The first pattern, in registration order, that matches the text.
FirstRegistered(t) ==
    EXTREME_PRIORITY_PATTERNS[
        CHOOSE k \in PatternsMatching[t] : \A j \in 1..(k - 1) : j \notin PatternsMatching[t]]

\* C10: a priority matching at least one registered pattern appears only in
\* flaggedPriorities, never in mappedPriorities, with the flagType and reason
\* of the first pattern, in registration order, that matches it.
C10_FlaggedByFirstPattern ==
    Analyzed =>
        \A t \in Range(input) :
            MatchesSomePattern(t) =>
                /\ Count(MappedTexts, t) = 0
                /\ Count(FlaggedTexts, t) = Count(input, t)
                /\ \A i \in 1..Len(analysis.flaggedPriorities) :
                       analysis.flaggedPriorities[i].userPriority = t =>
                           /\ analysis.flaggedPriorities[i].flagType
                                  = FirstRegistered(t).flagType
                           /\ analysis.flaggedPriorities[i].reason
                                  = FirstRegistered(t).reason

\* A priority matching the second and the third pattern, flagged as the
\* second pattern has it.
C10_Witness ==
    /\ Analyzed
    /\ \E i \in 1..Len(analysis.flaggedPriorities) :
           LET flagged == analysis.flaggedPriorities[i]
           IN  /\ PatternTest(EXTREME_PRIORITY_PATTERNS[2], flagged.userPriority)
               /\ PatternTest(EXTREME_PRIORITY_PATTERNS[3], flagged.userPriority)
               /\ flagged.flagType = "extreme"
               /\ flagged.reason = EXTREME_PRIORITY_PATTERNS[2].reason

\* The number of mapped issues of the category, over all MappedPriority entries.
Frequency(category) ==
    Cardinality({<<i, j>> \in (1..Len(analysis.mappedPriorities)) \X (1..Len(MOCK_POLITICAL_ISSUES) + 1) :
                    /\ j <= Len(analysis.mappedPriorities[i].mappedIssues)
                    /\ analysis.mappedPriorities[i].mappedIssues[j].issue.category = category})

\* The compound-phrase boosts the mapped priorities add to the category.
Boost(category) ==
    Cardinality({i \in 1..Len(MappedTexts) :
                    /\ category \in {"SOCIAL_SERVICES", "ECONOMY"}
                    /\ CompoundPhrasesOf[MappedTexts[i]].justice})
    + Cardinality({i \in 1..Len(MappedTexts) :
                      /\ category \in {"SOCIAL_SERVICES", "ENVIRONMENT", "HEALTHCARE"}
                      /\ CompoundPhrasesOf[MappedTexts[i]].envHealth})

\* C11 as stated: dominantCategories has length at most 3 and is ordered by
\* non-increasing mapped-issue frequency, the number of mapped issues of the
\* category across all MappedPriority entries.
C11_DominantByFrequency ==
    Analyzed =>
        /\ Len(analysis.dominantCategories) <= 3
        /\ \A i, j \in 1..Len(analysis.dominantCategories) :
               i < j => Frequency(analysis.dominantCategories[i])
                            >= Frequency(analysis.dominantCategories[j])

\* C11 amended: dominantCategories has length at most 3 and is ordered by
\* non-increasing category tally, the number of mapped issues of the category
\* across all MappedPriority entries plus the compound-phrase boosts the
\* mapped priorities add to the category.
C11_DominantByTally ==
    Analyzed =>
        /\ Len(analysis.dominantCategories) <= 3
        /\ \A i, j \in 1..Len(analysis.dominantCategories) :
               i < j => Frequency(analysis.dominantCategories[i])
                            + Boost(analysis.dominantCategories[i])
                        >= Frequency(analysis.dominantCategories[j])
                            + Boost(analysis.dominantCategories[j])

\* Four categories tallied, three reported, and a boosted category with no
\* mapped issue of its own ahead of a category that has one.
C11_Witness ==
    /\ Analyzed
    /\ Len(analysis.dominantCategories) = 3
    /\ Cardinality({c \in 1..Len(PoliticalCategories) :
                       Frequency(PoliticalCategories[c]) + Boost(PoliticalCategories[c]) > 0}) >= 4
    /\ \E i, j \in 1..3 :
           /\ i < j
           /\ Frequency(analysis.dominantCategories[i]) = 0
           /\ Frequency(analysis.dominantCategories[j]) > 0

\* The ids of the issues mapped to any priority.
MappedIssueIds ==
    {analysis.mappedPriorities[i].mappedIssues[j].issue.id :
        <<i, j>> \in {<<i, j>> \in (1..Len(analysis.mappedPriorities))
                                     \X (1..Len(MOCK_POLITICAL_ISSUES) + 1) :
                         j <= Len(analysis.mappedPriorities[i].mappedIssues)}}

\* C17: a static ConflictDefinition is in potentialConflicts if and only if
\* both issue ids of its pair are among the mapped issues of all priorities
\* taken together; a tax-cut priority with an education-funding priority
\* yields a non-empty potentialConflicts.
C17_ConflictIffBothIssuesMapped ==
    Analyzed =>
        /\ \A c \in 1..Len(MOCK_ISSUE_CONFLICTS) :
               (\E k \in 1..Len(analysis.potentialConflicts) :
                    analysis.potentialConflicts[k] = MOCK_ISSUE_CONFLICTS[c])
               <=> (/\ MOCK_ISSUE_CONFLICTS[c].issues[1] \in MappedIssueIds
                    /\ MOCK_ISSUE_CONFLICTS[c].issues[2] \in MappedIssueIds)
        /\ \A k \in 1..Len(analysis.potentialConflicts) :
               \E c \in 1..Len(MOCK_ISSUE_CONFLICTS) :
                   analysis.potentialConflicts[k] = MOCK_ISSUE_CONFLICTS[c]
        /\ ({"Lower taxes and reduce spending", "Increase education funding"}
               \subseteq Range(input)) => analysis.potentialConflicts # <<>>

\* The tax priority and the education priority are mapped to one issue each,
\* and the conflict of the two issues is reported.
C17_Witness ==
    /\ Analyzed
    /\ input = <<"Lower taxes and reduce spending", "Increase education funding">>
    /\ Len(analysis.mappedPriorities[1].mappedIssues) = 1
    /\ Len(analysis.mappedPriorities[2].mappedIssues) = 1
    /\ Len(analysis.potentialConflicts) = 1
    /\ analysis.potentialConflicts[1].issues = <<"taxes", "public_education">>

-----------------------------------------------------------------------------
(* Properties of the matchers, over the results of direct calls            *)
(* (MatcherSpec).                                                          *)

CandidatesReturned == mpc \in {"candidates", "measures"}
MeasuresReturned == mpc = "measures"

\* The place of the candidate in the roster.
RosterIndex(candidate) ==
    CHOOSE r \in 1..Len(createMockCandidates) : createMockCandidates[r] = candidate

\* C12: findMatchingCandidates returns exactly one entry per roster
\* candidate, ordered by non-increasing alignmentScore, with candidates of
\* equal score in roster order, whatever the analysis (an empty one included).
C12_OneEntryPerCandidateSorted ==
    CandidatesReturned =>
        /\ Len(returnedCandidates) = Len(createMockCandidates)
        /\ \A r \in 1..Len(createMockCandidates) :
               Cardinality({i \in 1..Len(returnedCandidates) :
                               returnedCandidates[i].candidate = createMockCandidates[r]}) = 1
        /\ \A i, j \in 1..Len(returnedCandidates) :
               i < j =>
                   /\ returnedCandidates[i].alignmentScore >= returnedCandidates[j].alignmentScore
                   /\ returnedCandidates[i].alignmentScore = returnedCandidates[j].alignmentScore
                          => RosterIndex(returnedCandidates[i].candidate)
                                 < RosterIndex(returnedCandidates[j].candidate)

\* The third candidate of the roster returned first, ahead of two candidates
\* of equal score.
C12_Witness ==
    /\ CandidatesReturned
    /\ input # <<>>
    /\ returnedCandidates[1].candidate = createMockCandidates[3]
    /\ returnedCandidates[2].alignmentScore = returnedCandidates[3].alignmentScore
    /\ returnedCandidates[1].alignmentScore > returnedCandidates[2].alignmentScore

\* C13: every score is within [0, 1]: each alignmentScore returned by
\* findMatchingCandidates and each relevanceScore returned by
\* findRelevantMeasures (in thousandths), and each confidence among the
\* mappedIssues of analyzePriorities (numerator, denominator).
C13_ScoresWithinUnitInterval ==
    /\ CandidatesReturned =>
           \A i \in 1..Len(returnedCandidates) :
               0 <= returnedCandidates[i].alignmentScore
                   /\ returnedCandidates[i].alignmentScore <= 1000
    /\ MeasuresReturned =>
           \A i \in 1..Len(returnedMeasures) :
               0 <= returnedMeasures[i].relevanceScore
                   /\ returnedMeasures[i].relevanceScore <= 1000
    /\ \A i \in 1..Len(analysis.mappedPriorities) :
           \A j \in 1..Len(analysis.mappedPriorities[i].mappedIssues) :
               LET confidence == analysis.mappedPriorities[i].mappedIssues[j].confidence
               IN  0 <= confidence[1] /\ confidence[1] <= confidence[2] /\ confidence[2] > 0

\* Three priorities that each hit every position of every candidate and the
\* title of every measure: the running sums pass 1 and the scores are 1.
C13_Witness ==
    /\ MeasuresReturned
    /\ Len(analysis.mappedPriorities) = 3
    /\ \E i \in 1..Len(returnedCandidates) :
           /\ returnedCandidates[i].alignmentScore = 1000
           /\ SumStrength(PositionHits(returnedCandidates[i].candidate,
                                       UserPriorities(analysis), 1, 1)) > 1000
    /\ \E i \in 1..Len(returnedMeasures) :
           /\ returnedMeasures[i].relevanceScore = 1000
           /\ 500 + 100 * Len(CategoryHits(returnedMeasures[i].ballotMeasure,
                                           UserPriorities(analysis), 1, 1)) > 1000

\* The measures of the roster whose applicable-location set holds the location.
MeasuresAt(zip) ==
    {r \in 1..Len(createMockBallotMeasures) :
        \E l \in 1..Len(createMockBallotMeasures[r].applicableLocations) :
            createMockBallotMeasures[r].applicableLocations[l] = zip}

\* The result holds exactly one entry for each of the given measures of the
\* roster, and each entry has the given isFallback.
ReturnsExactly(rosterIndices, isFallback) ==
    /\ Len(returnedMeasures) = Cardinality(rosterIndices)
    /\ \A r \in rosterIndices :
           \E i \in 1..Len(returnedMeasures) :
               returnedMeasures[i].ballotMeasure = createMockBallotMeasures[r]
    /\ \A i \in 1..Len(returnedMeasures) : returnedMeasures[i].isFallback = isFallback

\* C14: for a location in no measure's applicable-location set,
\* findRelevantMeasures returns one entry for every measure of the roster,
\* each with isFallback = true; for a location in at least one measure's set
\* it returns exactly the measures whose set holds the location, each with
\* isFallback = false.
C14_LocationFilterOrFallback ==
    MeasuresReturned =>
        IF MeasuresAt(location) = {}
        THEN ReturnsExactly(1..Len(createMockBallotMeasures), TRUE)
        ELSE ReturnsExactly(MeasuresAt(location), FALSE)

\* A location of one measure only: that measure alone comes back, not as a
\* fallback.
C14_Witness ==
    /\ MeasuresReturned
    /\ Cardinality(MeasuresAt(location)) = 1
    /\ Len(returnedMeasures) = 1
    /\ returnedMeasures[1].isFallback = FALSE
    /\ location \in Range(returnedMeasures[1].ballotMeasure.applicableLocations)

\* The match has matched priorities and its rationale holds, letter for
\* letter, a priority text of the input.
NamesAPriority(match) ==
    /\ match.matchedPriorities # <<>>
    /\ \E k \in 1..Len(input) : HasText(input[k]) /\ Includes(match.rationale, input[k])

\* C15 as stated: for analyzePriorities(P) followed by findMatchingCandidates
\* with P non-empty, every CandidateMatch has a non-empty matchedPriorities
\* and a rationale that literally contains a priority text of P.
C15_RationaleNamesPriority ==
    (CandidatesReturned /\ input # <<>>) =>
        \A i \in 1..Len(returnedCandidates) : NamesAPriority(returnedCandidates[i])

\* C15 amended: the same, whenever at least one priority of P is mapped,
\* that is, neither blank after trimming nor flagged.
C15_RationaleNamesMappedPriority ==
    (CandidatesReturned /\ \E k \in 1..Len(input) :
                               HasText(input[k]) /\ ~MatchesSomePattern(input[k])) =>
        \A i \in 1..Len(returnedCandidates) : NamesAPriority(returnedCandidates[i])

\* A flagged and a mapped priority, and a candidate none of whose positions
\* is hit: its rationale names the first mapped priority.
C15_Witness ==
    /\ CandidatesReturned
    /\ Len(input) = 2
    /\ MatchesSomePattern(input[1])
    /\ Len(analysis.mappedPriorities) = 1
    /\ \E i \in 1..Len(returnedCandidates) :
           /\ PositionHits(returnedCandidates[i].candidate, UserPriorities(analysis), 1, 1) = <<>>
           /\ returnedCandidates[i].matchedPriorities = <<input[2]>>
           /\ Includes(returnedCandidates[i].rationale, input[2])

-----------------------------------------------------------------------------
(* Further properties of generateRecommendations (Spec).                   *)

\* The call returned a compiled result, computed or cached, not the fatal one.
Succeeded ==
    /\ Called
    /\ last.result.policyRecommendations.explanation
           = "These recommendations are based on your stated priorities."

\* The priority receives at least one mapped issue: it is not blank and not
\* flagged.
IsMapped(priority) == HasText(priority) /\ ~MatchesSomePattern(priority)

\* C16: in a successful result, topPolicies is the list of the request's
\* priority texts that received a mapped issue, in the order the caller
\* supplied them, or the one sentinel message when no priority was mapped.
C16_TopPoliciesInCallerOrder ==
    Succeeded =>
        last.result.policyRecommendations.topPolicies
            = IF SelectSeq(last.request.priorities, IsMapped) = <<>>
              THEN <<"No specific policy focus identified from priorities.">>
              ELSE SelectSeq(last.request.priorities, IsMapped)

\* The value is the result one full run of the pipeline compiles for a
\* request with the given key that uses the cache, the mapper having
\* returned and each matcher having returned or thrown.
CompiledForKey(key, value) ==
    \E request \in Requests :
        /\ generateCacheKey(request) = key
        /\ ~IsTestRequest(request)
        /\ \E candidateOutcome \in CandidateOutcomes, measureOutcome \in MeasureOutcomes :
               LET run == TryBlockOf[request][<<Ok, candidateOutcome, measureOutcome>>]
               IN  ~run.threw /\ run.value = value

\* C18: in whatever order the calls of concurrent callers run (the function
\* body has no await, so each call runs from lookup to insert without another
\* call in between), every key of the cache maps to a complete result
\* compiled by one full pipeline run for a request with that key, no call
\* raises, and a hit returns the entry as it was stored.
C18_CacheNeverCorrupted ==
    /\ \A key \in DOMAIN cache : CompiledForKey(key, cache[key])
    /\ Called =>
           /\ last.raised = FALSE
           /\ \A key \in DOMAIN last.cacheBefore :
                  key \in DOMAIN cache /\ cache[key] = last.cacheBefore[key]
           /\ last.hit => last.result = last.cacheBefore[generateCacheKey(last.request)]

\* Two calls that both missed and both stored: the cache holds two entries,
\* the earlier one untouched by the later insert.
C18_Witness ==
    /\ nCalls = 2
    /\ ~last.hit
    /\ Cardinality(DOMAIN last.cacheBefore) = 1
    /\ Cardinality(DOMAIN cache) = 2
    /\ \A key \in DOMAIN last.cacheBefore : cache[key] = last.cacheBefore[key]

\* The steps of a cache miss, in the order the claim gives them.
PipelineOrder ==
    <<"analyzePriorities", "findMatchingCandidates", "findRelevantMeasures",
      "generatePolicyRecommendations", "compile", "cache.set">>

StepIndex(step) == CHOOSE k \in 1..Len(PipelineOrder) : PipelineOrder[k] = step

Ran(step) == \E k \in 1..Len(last.log) : last.log[k] = step

\* C19: on a cache miss the steps run in the order mapping, candidate
\* matching, measure matching, policy summary, assembly, cache write: no
\* matcher is invoked before analyzePriorities has returned,
\* findRelevantMeasures is invoked only after findMatchingCandidates has
\* returned or failed, and the cache write comes last; on a cache hit no
\* service is invoked.
C19_StepsInPipelineOrder ==
    Called =>
        /\ \A k \in 1..Len(last.log) : \E o \in 1..Len(PipelineOrder) : last.log[k] = PipelineOrder[o]
        /\ \A k \in 1..(Len(last.log) - 1) : StepIndex(last.log[k]) < StepIndex(last.log[k + 1])
        /\ ~last.hit => Ran("analyzePriorities")
        /\ (Ran("findMatchingCandidates") \/ Ran("findRelevantMeasures"))
               => (Ran("analyzePriorities") /\ last.mapper.kind = "returned")
        /\ Ran("findRelevantMeasures")
               => (Ran("findMatchingCandidates") /\ last.candidates.kind \in {"returned", "threw"})
        /\ Ran("cache.set") => (last.log[Len(last.log)] = "cache.set" /\ Ran("compile"))
        /\ Ran("analyzePriorities") <=> last.mapper.kind # "not invoked"
        /\ Ran("findMatchingCandidates") <=> last.candidates.kind # "not invoked"
        /\ Ran("findRelevantMeasures") <=> last.measures.kind # "not invoked"
        /\ last.hit => /\ last.log = <<>>
                       /\ last.mapper.kind = "not invoked"
                       /\ last.candidates.kind = "not invoked"
                       /\ last.measures.kind = "not invoked"

\* A miss that ran all six steps, the measure matcher after the candidate
\* matcher had failed.
C19_Witness ==
    /\ Missed
    /\ last.log = PipelineOrder
    /\ last.candidates.kind = "threw"
    /\ last.measures.kind = "returned"

\* C20: the cache is skipped, neither read nor written, only for test
\* traffic: a request with a priority that contains 'test' or 'mock' in any
\* case or is 'extremely specific' in any case.  For every other request the
\* cache is consulted before any service is invoked and the assembled result
\* is stored.
C20_BypassOnlyForTestTraffic ==
    Called =>
        LET key == generateCacheKey(last.request)
            isTestTraffic ==
                \E k \in 1..Len(last.request.priorities) :
                    \/ Includes(ToLowerCase(last.request.priorities[k]), "test")
                    \/ Includes(ToLowerCase(last.request.priorities[k]), "mock")
                    \/ ToLowerCase(last.request.priorities[k]) = "extremely specific"
        IN  IF isTestTraffic
            THEN /\ ~last.hit
                 /\ cache = last.cacheBefore
                 /\ ~Ran("cache.set")
            ELSE /\ last.hit <=> key \in DOMAIN last.cacheBefore
                 /\ last.hit => (last.log = <<>> /\ cache = last.cacheBefore)
                 /\ (~last.hit /\ Ran("compile")) =>
                        /\ Ran("cache.set")
                        /\ key \in DOMAIN cache
                        /\ cache[key] = last.result

\* A request whose one priority contains 'extremely specific' without being
\* it is not test traffic: asked twice, it is answered from the cache the
\* second time.
C20_Witness ==
    /\ nCalls = 2
    /\ last.request.priorities = <<"Something extremely specific">>
    /\ last.hit
    /\ last.result = cache[generateCacheKey(last.request)]

\* C21: cache entries have process lifetime: a call never removes an entry
\* or replaces its result, and a request that is not test traffic and whose
\* key has an entry is answered with that entry's result.
C21_EntriesHaveProcessLifetime ==
    [][/\ \A key \in DOMAIN cache : key \in DOMAIN cache' /\ cache'[key] = cache[key]
       /\ (~IsTestRequest(last'.request) /\ generateCacheKey(last'.request) \in DOMAIN cache)
              => /\ last'.hit
                 /\ last'.result = cache[generateCacheKey(last'.request)]]_vars

\* A second call that missed and stored its own entry next to the first
\* call's, which is still what it was.
C21_Witness ==
    /\ nCalls = 2
    /\ ~last.hit
    /\ DOMAIN last.cacheBefore # {}
    /\ generateCacheKey(last.request) \in DOMAIN cache \ DOMAIN last.cacheBefore
    /\ \A key \in DOMAIN last.cacheBefore :
           /\ cache[key] = last.cacheBefore[key]
           /\ cache[key].candidates # <<>>

\* The tally of each category: its mapped issues plus its boosts.
TallyOf == [c \in 1..Len(PoliticalCategories) |->
               Frequency(PoliticalCategories[c]) + Boost(PoliticalCategories[c])]

\* The category declared at position a goes before the one at position b:
\* the larger tally first, the earlier declaration first among equal tallies.
GoesBefore(tally, a, b) == tally[a] > tally[b] \/ (tally[a] = tally[b] /\ a < b)

\* The position of a category in the declaration order (0 when undeclared).
DeclarationIndex(category) ==
    IF \E c \in 1..Len(PoliticalCategories) : PoliticalCategories[c] = category
    THEN CHOOSE c \in 1..Len(PoliticalCategories) : PoliticalCategories[c] = category
    ELSE 0

\* The sequence holds the first three (or all, if fewer) of the categories
\* with a positive tally, in the order of GoesBefore.
IsTopThree(dominant, tally) ==
    LET positive == {c \in DOMAIN tally : tally[c] > 0}
        at == [k \in 1..Len(dominant) |-> DeclarationIndex(dominant[k])]
    IN  /\ Len(dominant) = (IF Cardinality(positive) < 3 THEN Cardinality(positive) ELSE 3)
        /\ \A k \in 1..Len(dominant) : at[k] \in positive
        /\ \A k, j \in 1..Len(dominant) : k < j => GoesBefore(tally, at[k], at[j])
        /\ \A c \in positive :
               (\A k \in 1..Len(dominant) : at[k] # c)
                   => \A k \in 1..Len(dominant) : GoesBefore(tally, at[k], c)

\* The example of the specification.
RoadsExample == <<"I want lower taxes", "Better public schools", "Fix the roads">>

\* C22: dominantCategories is exactly the top 3 categories by tally (mapped
\* issues of the category plus compound-phrase boosts), equal tallies in
\* category declaration order, categories of tally zero left out even when
\* fewer than 3 remain; for the three priorities of the example it
\* includes ECONOMY, EDUCATION and INFRASTRUCTURE.
C22_DominantIsTopThreeByTally ==
    Analyzed =>
        /\ IsTopThree(analysis.dominantCategories, TallyOf)
        /\ input = RoadsExample
              => /\ Len(analysis.mappedPriorities) = 3
                 /\ {"ECONOMY", "EDUCATION", "INFRASTRUCTURE"}
                        \subseteq Range(analysis.dominantCategories)

\* More than three categories tallied, the third and the first one left out
\* with equal tallies, and the one kept declared earlier.
C22_Witness ==
    /\ Analyzed
    /\ Len(analysis.dominantCategories) = 3
    /\ \E c \in 1..Len(PoliticalCategories) :
           /\ TallyOf[c] > 0
           /\ TallyOf[c] = TallyOf[DeclarationIndex(analysis.dominantCategories[3])]
           /\ c > DeclarationIndex(analysis.dominantCategories[3])
           /\ \A k \in 1..3 : analysis.dominantCategories[k] # PoliticalCategories[c]

\* The (position, priority) hits of the candidate of a returned match, over
\* the mapped priorities.
HitsOf(match) == PositionHits(match.candidate, UserPriorities(analysis), 1, 1)

\* C23: for every candidate, alignmentScore is min(1, sum of 0.2 x
\* position.strength over the (position, mapped priority) pairs where one
\* lower-cased text contains the other), and matchedPriorities holds exactly
\* the priorities of those pairs.
C23_AlignmentIsClampedHitSum ==
    CandidatesReturned =>
        \A i \in 1..Len(returnedCandidates) :
            /\ returnedCandidates[i].alignmentScore
                   = (IF SumStrength(HitsOf(returnedCandidates[i])) < 1000
                      THEN SumStrength(HitsOf(returnedCandidates[i])) ELSE 1000)
            /\ Range(returnedCandidates[i].matchedPriorities)
                   = {HitsOf(returnedCandidates[i])[k].priority :
                          k \in 1..Len(HitsOf(returnedCandidates[i]))}

\* The (category, priority) hits of the measure of a returned match, over
\* the mapped priorities.
CategoryHitsOf(match) == CategoryHits(match.ballotMeasure, UserPriorities(analysis), 1, 1)

\* C24: for every returned measure, relevanceScore is min(1, 0.5 + 0.1 x h),
\* h being the number of (measure category, mapped priority) pairs where the
\* priority contains the category name or the measure's title or
\* description contains the priority, case-insensitively.
C24_RelevanceIsClampedHitCount ==
    MeasuresReturned =>
        \A i \in 1..Len(returnedMeasures) :
            returnedMeasures[i].relevanceScore
                = (IF 500 + 100 * Len(CategoryHitsOf(returnedMeasures[i])) < 1000
                   THEN 500 + 100 * Len(CategoryHitsOf(returnedMeasures[i])) ELSE 1000)

\* The measure with only its category at position c.
WithCategory(measure, c) == [measure EXCEPT !.categories = <<measure.categories[c]>>]

\* The positions of the categories of the measure of a returned match that
\* matched a mapped priority.
MatchedCategories(match) ==
    {c \in 1..Len(match.ballotMeasure.categories) :
        CategoryHits(WithCategory(match.ballotMeasure, c), UserPriorities(analysis), 1, 1) # <<>>}

\* The explanation names the first matched category of the measure and the
\* first priority matched with it.
NamesFirstMatch(match) ==
    \E c \in MatchedCategories(match) :
        /\ \A other \in MatchedCategories(match) : c <= other
        /\ match.explanation
              = "This measure relates to " \o ToLowerCase(match.ballotMeasure.categories[c])
                  \o " which aligns with your priority of "
                  \o CategoryHits(WithCategory(match.ballotMeasure, c),
                                  UserPriorities(analysis), 1, 1)[1]

\* C26: the explanation of each BallotMeasureMatch names the first category
\* of the measure that matched a priority together with the first matched
\* priority when some (category, priority) pair matched; when none matched
\* and a priority is mapped, it names the first of the mapped priorities.
C26_ExplanationNamesFirstMatch ==
    MeasuresReturned =>
        \A i \in 1..Len(returnedMeasures) :
            IF MatchedCategories(returnedMeasures[i]) # {}
            THEN NamesFirstMatch(returnedMeasures[i])
            ELSE analysis.mappedPriorities # <<>>
                    => Includes(returnedMeasures[i].explanation,
                                analysis.mappedPriorities[1].userPriority)

\* The texts of the model that match no issue of the taxonomy through a
\* synonym or a related term.
MatchesNoTerm ==
    Table([t \in AllTexts |->
              \A i \in 1..Len(MOCK_POLITICAL_ISSUES) :
                  ~KeywordMatchesIssue(Trim(ToLowerCase(t)), MOCK_POLITICAL_ISSUES[i])])

\* C25: a mapped priority that matches no taxonomy issue through synonym or
\* related-term matching is mapped to exactly one issue, the fallback issue,
\* with confidence exactly 0.5.
C25_FallbackHasReducedConfidence ==
    Analyzed =>
        \A i \in 1..Len(analysis.mappedPriorities) :
            MatchesNoTerm[analysis.mappedPriorities[i].userPriority]
                => /\ Len(analysis.mappedPriorities[i].mappedIssues) = 1
                   /\ analysis.mappedPriorities[i].mappedIssues[1].confidence = <<5, 10>>

\* C28: a call in which analyzePriorities throws leaves the cache as it
\* was, and the next call with the same priorities, location and mode
\* invokes the mapper again.
C28_MapperFailureNotCached ==
    [][/\ last'.mapper.kind = "threw" => cache' = cache
       /\ (Called /\ last.mapper.kind = "threw" /\ SameRequest(last.request, last'.request))
              => /\ ~last'.hit
                 /\ last'.mapper.kind # "not invoked"]_vars

\* The request of the first call made again by the second, with the cache
\* still empty after the first call although the request uses the cache (the
\* mapper threw in the first call): the second call runs the mapper, which
\* returns, and its result is stored.
C28_Witness ==
    /\ nCalls = 2
    /\ seen = {last.request}
    /\ ~IsTestRequest(last.request)
    /\ last.cacheBefore = EmptyCache
    /\ last.mapper.kind = "returned"
    /\ generateCacheKey(last.request) \in DOMAIN cache

\* The call ran the candidate matcher, which threw, for a request that uses
\* the cache.
CandidateFailureOnCachedPath(call) ==
    call.candidates.kind = "threw" /\ ~IsTestRequest(call.request)

\* C29: when findMatchingCandidates throws on a request that uses the cache,
\* the partial result (candidates = [], error set) is written to the cache,
\* and the next request with the same key returns that stored result, error
\* included, without invoking the candidate matcher again.
C29_CandidateFailureIsCached ==
    [][/\ CandidateFailureOnCachedPath(last')
              => /\ last'.result.candidates = <<>>
                 /\ last'.result.error # <<>>
                 /\ generateCacheKey(last'.request) \in DOMAIN cache'
                 /\ cache'[generateCacheKey(last'.request)] = last'.result
       /\ (/\ Called
           /\ CandidateFailureOnCachedPath(last)
           /\ generateCacheKey(last'.request) = generateCacheKey(last.request)
           /\ ~IsTestRequest(last'.request))
              => /\ last'.hit
                 /\ last'.result = last.result
                 /\ last'.candidates.kind = "not invoked"]_vars

\* C30: generateRecommendations does not modify its request argument: after
\* any call (hit, miss or failure) request.priorities holds the same texts in
\* the same order as before the call, and analyzePriorities, when invoked,
\* receives the priorities in the caller's original order.
C30_RequestArgumentUnmodified ==
    Called =>
        /\ last.prioritiesAfter = last.request.priorities
        /\ last.mapper.kind # "not invoked" => last.mapperArg = last.request.priorities

=============================================================================
